---- MODULE Spec2Model ----
(***************************************************************************)
(* A model of interactive_learning_pro_site_refactor_a_11_y_perf.jsx: the  *)
(* focus-trapped Modal, the IntersectionObserver scroll-spy, jump() and    *)
(* the contact form of InteractiveLearningPro.                             *)
(*                                                                         *)
(* One action is one event handler run to completion: the handler, the     *)
(* state updates it queues, the re-render they cause and the effect        *)
(* cleanups and effects of that render.                                    *)
(*                                                                         *)
(* DOM elements are strings.  "body" is document.body, which is what       *)
(* document.activeElement is when nothing has focus; "none" is null.       *)
(* Text values are sequences of one-character strings.                     *)
(***************************************************************************)
EXTENDS Integers, Sequences, FiniteSets, TLC

VARIABLES
    active,        \* useState("home") of InteractiveLearningPro
    fishboneOpen,  \* useState(false) of InteractiveLearningPro: Modal's `open`
    values,        \* useContactForm: the validated fields of `values`
    errors,        \* useContactForm: `errors`, a function field -> message
    focus,         \* document.activeElement
    prev,          \* `prev` of the Modal effect whose cleanup is pending
    listeners,     \* number of onKey listeners registered on document
    attached,      \* page elements (outside the modal) still in the document
    nChildren,     \* focusable elements the Modal's `children` contribute
    observed,      \* ids of the elements the IntersectionObserver observes
    mounted,       \* the hosting view is mounted
    preOpen,       \* history: document.activeElement when the modal was opened
    lastHit,       \* history: the target of the last entry that was intersecting
    out            \* history: the last event and the calls its handler made

vars == <<active, fishboneOpen, values, errors, focus, prev, listeners,
          attached, nChildren, observed, mounted, preOpen, lastHit, out>>

------------------------------------------------------------------------------
(* Bounds *)

\* Largest number of focusable elements passed to the Modal as children.
MaxChildren == 2

------------------------------------------------------------------------------
(* The document *)

body == "body"
none == "none"

\* const sections = [...]
sections == <<"home", "activities", "methodology", "solutions", "about", "contact">>

SectionIds == {sections[i] : i \in 1..Len(sections)}

\* Ids that jump is asked for: the declared sections, and one id no element has
\* (the Resources section is rendered without an id).
JumpIds == SectionIds \cup {"resources"}

\* document.getElementById(id) finds an element: <header id="home"> and the
\* <Section id=...> elements.
HasElement(id) == id \in SectionIds

\* Focusable page elements outside the modal, in document order: a button of
\* the mobile menu and the "Try Live Demo" button.
PageOrder == <<"menuItem", "demoBtn">>

PageEls == {PageOrder[i] : i \in 1..Len(PageOrder)}

\* {open && (...)}: the mobile menu's buttons are rendered only while the menu
\* is open, and leave the document when it closes.
Removable == {"menuItem"}

ChildNames == <<"child1", "child2", "child3", "child4">>

\* dialogRef.current.querySelectorAll('a,button,textarea,input,select,...'):
\* the Close button of the header, then the focusable children.  The one use
\* of Modal (line 483) passes an iframe alone, n = 0; larger n are other
\* children of the component, placed before the iframe.
Focusable(n) == <<"closeBtn">> \o SubSeq(ChildNames, 1, n)

\* The iframe follows in the tab order; the selector does not match it.
ModalOrder(n) == Focusable(n) \o <<"iframe">>

ModalEls(n) == {ModalOrder(n)[i] : i \in 1..Len(ModalOrder(n))}

\* The last event and what its handler called: onClose() and alert() (how many
\* times) and scrollIntoView (on which element).
Out(e, c, a, s) ==
    [event |-> e, key |-> none, shift |-> FALSE, hits |-> <<>>,
     onClose |-> c, alert |-> a, scroll |-> s]

NoOut(e) == Out(e, 0, 0, none)

\* A keydown event with its key and shiftKey.
KeyOut(key, shift, c) ==
    [event |-> "keydown", key |-> key, shift |-> shift, hits |-> <<>>,
     onClose |-> c, alert |-> 0, scroll |-> none]

\* An observer callback with the targets its batch reported as intersecting,
\* in the order of the batch.
RECURSIVE Hits(_)
Hits(entries) ==
    IF entries = <<>> THEN <<>>
    ELSE (IF Head(entries).isIntersecting THEN <<Head(entries).target>> ELSE <<>>)
         \o Hits(Tail(entries))

ObserverOut(entries) ==
    [event |-> "intersect", key |-> none, shift |-> FALSE, hits |-> Hits(entries),
     onClose |-> 0, alert |-> 0, scroll |-> none]

------------------------------------------------------------------------------
(* The Modal: useEffect(..., [open, onClose]) *)

\* Elements in the document when the dialog is rendered or not.
InDocument(att, n, rendered) == att \cup (IF rendered THEN ModalEls(n) ELSE {})

\* el.focus(): moves focus when el is a focusable element of the document;
\* on document.body and on a detached element it does nothing.
FocusOn(el, cur, doc) == IF el \in doc THEN el ELSE cur

\* The state the effect reads and writes: document.activeElement, the `prev`
\* of its closure, and the keydown listeners on document.
Dom(f, p, l) == [focus |-> f, prev |-> p, listeners |-> l]

\* ModalEffect reading document.activeElement only after first.focus().
ModalEffect_CaptureAfterFocus(m, n, doc) ==
    Dom(FocusOn(Focusable(n)[1], m.focus, doc),
        FocusOn(Focusable(n)[1], m.focus, doc), m.listeners + 1)

\* The body of the effect when open:
\*   const prev = document.activeElement;
\*   const focusable = dialogRef.current?.querySelectorAll(...);
\*   const first = focusable?.[0];  first && first.focus();
\*   document.addEventListener("keydown", onKey);
ModalEffect(m, n, doc) ==
    Dom(FocusOn(Focusable(n)[1], m.focus, doc), m.focus, m.listeners + 1)

\* ModalCleanup without prev.focus().
ModalCleanup_NoRestore(m, doc) == Dom(m.focus, none, m.listeners - 1)

\* ModalCleanup without removeEventListener.
ModalCleanup_KeepListener(m, doc) ==
    Dom(IF m.prev = none THEN m.focus ELSE FocusOn(m.prev, m.focus, doc),
        none, m.listeners)

\* return () => { document.removeEventListener("keydown", onKey); prev && prev.focus(); }
ModalCleanup(m, doc) ==
    Dom(IF m.prev = none THEN m.focus ELSE FocusOn(m.prev, m.focus, doc),
        none, m.listeners - 1)

\* A render of InteractiveLearningPro committed with Modal's open going from
\* wasOpen to nowOpen.  The inline onClose (line 483) is a new function on
\* every such render, so the effect's dependencies have changed: the pending
\* cleanup (there is one iff the effect ran with open) runs, then the effect.
\* `if (!open) return null` removes the dialog from the document before the
\* cleanup runs; a focused element that is removed loses focus to body.
Commit(m, n, att, wasOpen, nowOpen) ==
    LET doc == InDocument(att, n, nowOpen)
        m1  == IF m.focus \in doc \cup {body} THEN m
               ELSE Dom(body, m.prev, m.listeners)
        m2  == IF wasOpen THEN ModalCleanup(m1, doc) ELSE m1
    IN  IF nowOpen THEN ModalEffect(m2, n, doc) ELSE m2

\* list.indexOf(document.activeElement), 0-based, -1 when absent.
IndexOf(list, el) ==
    IF \E i \in 1..Len(list) : list[i] = el
    THEN (CHOOSE i \in 1..Len(list) : list[i] = el) - 1
    ELSE -1

\* What one listener sees and does: focus, e.defaultPrevented, onClose() calls.
Key(f, p, c) == [focus |-> f, prevented |-> p, closeCalls |-> c]

\* onKey comparing idx with list.length instead of list.length - 1.
onKey_OffByOne(h, key, shift, n, doc) ==
    LET list == Focusable(n)
        idx  == IndexOf(list, h.focus)
        h1   == IF key = "Escape"
                THEN Key(h.focus, h.prevented, h.closeCalls + 1) ELSE h
    IN  IF key = "Tab" /\ Len(list) > 0
        THEN IF shift /\ idx <= 0
             THEN Key(FocusOn(list[Len(list)], h1.focus, doc), TRUE, h1.closeCalls)
             ELSE IF ~shift /\ idx = Len(list)
                  THEN Key(FocusOn(list[1], h1.focus, doc), TRUE, h1.closeCalls)
                  ELSE h1
        ELSE h1

\* onKey testing e.key against "Esc", the name old browsers used.
onKey_Esc(h, key, shift, n, doc) ==
    LET list == Focusable(n)
        idx  == IndexOf(list, h.focus)
        h1   == IF key = "Esc"
                THEN Key(h.focus, h.prevented, h.closeCalls + 1) ELSE h
    IN  IF key = "Tab" /\ Len(list) > 0
        THEN IF shift /\ idx <= 0
             THEN Key(FocusOn(list[Len(list)], h1.focus, doc), TRUE, h1.closeCalls)
             ELSE IF ~shift /\ idx = Len(list) - 1
                  THEN Key(FocusOn(list[1], h1.focus, doc), TRUE, h1.closeCalls)
                  ELSE h1
        ELSE h1

\* const onKey = (e) => { ... } with focusable = Focusable(n).
onKey(h, key, shift, n, doc) ==
    LET list == Focusable(n)
        idx  == IndexOf(list, h.focus)
        h1   == IF key = "Escape"
                THEN Key(h.focus, h.prevented, h.closeCalls + 1) ELSE h
    IN  IF key = "Tab" /\ Len(list) > 0
        THEN IF shift /\ idx <= 0
             THEN Key(FocusOn(list[Len(list)], h1.focus, doc), TRUE, h1.closeCalls)
             ELSE IF ~shift /\ idx = Len(list) - 1
                  THEN Key(FocusOn(list[1], h1.focus, doc), TRUE, h1.closeCalls)
                  ELSE h1
        ELSE h1

\* The keydown event is dispatched to every registered listener in turn.
RECURSIVE Dispatch(_, _, _, _, _, _)
Dispatch(k, h, key, shift, n, doc) ==
    IF k = 0 THEN h
    ELSE Dispatch(k - 1, onKey(h, key, shift, n, doc), key, shift, n, doc)

\* The browser's own Tab / Shift+Tab when no listener prevented it: the next or
\* previous element of the document's tab order (page elements, then the
\* dialog's), wrapping at the ends; from body, the first or the last.
TabOrder(att, n, rendered) ==
    SelectSeq(PageOrder, LAMBDA e : e \in att)
        \o (IF rendered THEN ModalOrder(n) ELSE <<>>)

BrowserTab(f, shift, order) ==
    LET len == Len(order)
        i   == IndexOf(order, f) + 1
    IN  IF len = 0 THEN f
        ELSE IF i = 0 THEN (IF shift THEN order[len] ELSE order[1])
        ELSE IF shift THEN (IF i = 1 THEN order[len] ELSE order[i - 1])
        ELSE (IF i = len THEN order[1] ELSE order[i + 1])

------------------------------------------------------------------------------
(* The scroll-spy and jump *)

\* sections.forEach(id => { const el = document.getElementById(id); el && obs.observe(el); })
ObserveAll == {sections[i] : i \in {j \in 1..Len(sections) : HasElement(sections[j])}}

\* An IntersectionObserverEntry: e.target.id and e.isIntersecting.
Entry(id, hit) == [target |-> id, isIntersecting |-> hit]

\* ObserverCallback without the isIntersecting test.
RECURSIVE ObserverCallback_AnyEntry(_, _)
ObserverCallback_AnyEntry(a, entries) ==
    IF entries = <<>> THEN a
    ELSE ObserverCallback_AnyEntry(Head(entries).target, Tail(entries))

\* ObserverCallback stopping at the first intersecting entry of the batch.
RECURSIVE ObserverCallback_FirstWins(_, _)
ObserverCallback_FirstWins(a, entries) ==
    IF entries = <<>> THEN a
    ELSE IF Head(entries).isIntersecting THEN Head(entries).target
    ELSE ObserverCallback_FirstWins(a, Tail(entries))

\* ObserverCallback falling back to the first section when an entry reports a
\* section leaving: setActive(e.isIntersecting ? e.target.id : sections[0]).
RECURSIVE ObserverCallback_LeaveResets(_, _)
ObserverCallback_LeaveResets(a, entries) ==
    IF entries = <<>> THEN a
    ELSE ObserverCallback_LeaveResets(
             IF Head(entries).isIntersecting THEN Head(entries).target
             ELSE sections[1],
             Tail(entries))

\* entries.forEach(e => { if (e.isIntersecting) setActive(e.target.id); })
\* applied to the state a: the queued setActive calls are applied in order.
RECURSIVE ObserverCallback(_, _)
ObserverCallback(a, entries) ==
    IF entries = <<>> THEN a
    ELSE ObserverCallback(
             IF Head(entries).isIntersecting THEN Head(entries).target ELSE a,
             Tail(entries))

\* The batches of entries one callback is given: one entry, or an intersecting
\* entry followed by an entry about another element.
Batches ==
    {<<Entry(x, b)>> : x \in SectionIds, b \in BOOLEAN}
    \cup {<<Entry(pr[1], TRUE), Entry(pr[2], b)>> :
             pr \in {q \in SectionIds \X SectionIds : q[1] # q[2]}, b \in BOOLEAN}

\* const jump = (id) => { const el = document.getElementById(id);
\*                        el?.scrollIntoView({ behavior: "smooth", block: "start" }); }
\* The element scrollIntoView is called on, none when there is no call.
jump(id) == IF HasElement(id) THEN id ELSE none

------------------------------------------------------------------------------
(* The contact form *)

Whitespace == {" ", "\t", "\n"}

\* String.prototype.trim()
RECURSIVE trim(_)
trim(s) ==
    IF s = <<>> THEN s
    ELSE IF Head(s) \in Whitespace THEN trim(Tail(s))
    ELSE IF s[Len(s)] \in Whitespace THEN trim(SubSeq(s, 1, Len(s) - 1))
    ELSE s

\* [^\s@]+ matches the whole of t.
NoSpaceNoAt(t) == Len(t) > 0 /\ \A k \in 1..Len(t) : t[k] \notin Whitespace \cup {"@"}

\* emailRx.test(s) with emailRx = /^[^\s@]+@[^\s@]+\.[^\s@]+$/
emailRx(s) ==
    \E i \in 1..Len(s), j \in 1..Len(s) :
        /\ i < j
        /\ s[i] = "@"
        /\ s[j] = "."
        /\ NoSpaceNoAt(SubSeq(s, 1, i - 1))
        /\ NoSpaceNoAt(SubSeq(s, i + 1, j - 1))
        /\ NoSpaceNoAt(SubSeq(s, j + 1, Len(s)))

Fields == {"name", "email", "organization", "website"}

\* validate testing the email only for being blank.
validateKeys_NoPattern(v) ==
    {k \in Fields :
        \/ k = "name" /\ trim(v.name) = <<>>
        \/ k = "email" /\ trim(v.email) = <<>>
        \/ k = "organization" /\ trim(v.organization) = <<>>
        \/ k = "website" /\ v.website # <<>>}

\* validate without the honeypot test.
validateKeys_NoHoneypot(v) ==
    {k \in Fields :
        \/ k = "name" /\ trim(v.name) = <<>>
        \/ k = "email" /\ (trim(v.email) = <<>> \/ ~emailRx(v.email))
        \/ k = "organization" /\ trim(v.organization) = <<>>}

\* The e of validate, as the set of its keys.
validateKeys(v) ==
    {k \in Fields :
        \/ k = "name" /\ trim(v.name) = <<>>
        \/ k = "email" /\ (trim(v.email) = <<>> \/ ~emailRx(v.email))
        \/ k = "organization" /\ trim(v.organization) = <<>>
        \/ k = "website" /\ v.website # <<>>}

Message(k) ==
    CASE k = "name" -> "Please enter your name."
      [] k = "email" -> "Enter a valid email."
      [] k = "organization" -> "Organization is required."
      [] k = "website" -> "Spam detected."

\* const validate = () => { const e = {}; ...; setErrors(e); return Object.keys(e).length === 0; }
\* The object e.
validate(v) == [k \in validateKeys(v) |-> Message(k)]

\* What the user (or a bot, for website) can put in each field.
Text(f) ==
    CASE f = "name" -> {<<>>, <<" ">>, <<"A", "n", "n">>}
      [] f = "email" -> {<<>>,
                         <<"n", "o", "t", "-", "a", "n", "-", "e", "m", "a", "i", "l">>,
                         <<"a", "@", "b">>,
                         <<"a", "@", "b", ".", "c", "o">>}
      [] f = "organization" -> {<<>>, <<"U", "W", "S">>}
      [] f = "website" -> {<<>>, <<"x">>}

------------------------------------------------------------------------------
(* The state after the first render and its effects *)

\* useState with an id that no section has.
InitialActive_Hero == "hero"

\* useState("home")
InitialActive == "home"

\* ModalState.isOpen: the Modal is rendered with open = true.
isOpen == mounted /\ fishboneOpen

Init ==
    /\ active = InitialActive
    /\ fishboneOpen = FALSE
    /\ values = [name |-> <<>>, email |-> <<>>, organization |-> <<>>, website |-> <<>>]
    /\ errors = [k \in {} |-> ""]
    /\ focus = body
    /\ prev = none
    /\ listeners = 0
    /\ attached = PageEls
    /\ nChildren \in 0..MaxChildren
    /\ observed = ObserveAll
    /\ mounted = TRUE
    /\ preOpen = none
    /\ lastHit = none
    /\ out = NoOut("mount")

\* The Modal's part of the state, and its update.
DomNow == Dom(focus, prev, listeners)

SetDom(m) ==
    /\ focus' = m.focus
    /\ prev' = m.prev
    /\ listeners' = m.listeners

\* onClose = () => setFishboneOpen(false), called c times in one event, from
\* the Modal state m.  A state that does not change causes no render, nor
\* does an update of an unmounted component.
Closed(m, c) ==
    IF c > 0 /\ isOpen
    THEN /\ fishboneOpen' = FALSE
         /\ SetDom(Commit(m, nChildren, attached, TRUE, FALSE))
    ELSE /\ fishboneOpen' = fishboneOpen
         /\ SetDom(m)

------------------------------------------------------------------------------
(* Events.  The backdrop (fixed inset-0 z-[100]) covers the page while the   *)
(* modal is open, so the page's own controls are used only while it is       *)
(* closed.                                                                   *)

\* The user moves focus to a page element, or away from all of them.
FocusPage(el) ==
    /\ mounted /\ ~fishboneOpen
    /\ el \in attached \cup {body}
    /\ focus' = el
    /\ out' = NoOut("focus")
    /\ UNCHANGED <<active, fishboneOpen, values, errors, prev, listeners,
                   attached, nChildren, observed, mounted, preOpen, lastHit>>

\* A removable page element leaves the document; if it had focus, focus falls
\* to body.
Detach(el) ==
    /\ mounted
    /\ el \in attached \cap Removable
    /\ attached' = attached \ {el}
    /\ focus' = IF focus = el THEN body ELSE focus
    /\ out' = NoOut("detach")
    /\ UNCHANGED <<active, fishboneOpen, values, errors, prev, listeners,
                   nChildren, observed, mounted, preOpen, lastHit>>

\* onDemo={()=>setFishboneOpen(true)}
OpenDemo ==
    /\ mounted /\ ~fishboneOpen
    /\ fishboneOpen' = TRUE
    /\ SetDom(Commit(DomNow, nChildren, attached, FALSE, TRUE))
    /\ preOpen' = focus
    /\ out' = NoOut("open")
    /\ UNCHANGED <<active, values, errors, attached, nChildren, observed, mounted,
                   lastHit>>

\* A keydown event on document.  Inside the iframe it belongs to the iframe's
\* document and no listener of this one sees it.
KeyDown(key, shift) ==
    LET doc == InDocument(attached, nChildren, isOpen)
        k   == IF focus = "iframe" THEN 0 ELSE listeners
        h   == Dispatch(k, Key(focus, FALSE, 0), key, shift, nChildren, doc)
        f   == IF key = "Tab" /\ ~h.prevented
               THEN BrowserTab(h.focus, shift,
                               TabOrder(attached, nChildren, isOpen))
               ELSE h.focus
    IN  /\ Closed(Dom(f, prev, listeners), h.closeCalls)
        /\ out' = KeyOut(key, shift, h.closeCalls)
        /\ UNCHANGED <<active, values, errors, attached, nChildren, observed,
                       mounted, preOpen, lastHit>>

\* <div className="absolute inset-0 bg-black/70" onClick={onClose} />
ClickBackdrop ==
    /\ mounted /\ fishboneOpen
    /\ Closed(Dom(body, prev, listeners), 1)
    /\ out' = Out("backdrop", 1, 0, none)
    /\ UNCHANGED <<active, values, errors, attached, nChildren, observed,
                   mounted, preOpen, lastHit>>

\* <button aria-label="Close" onClick={onClose} ...>
ClickClose ==
    /\ mounted /\ fishboneOpen
    /\ Closed(Dom("closeBtn", prev, listeners), 1)
    /\ out' = Out("close", 1, 0, none)
    /\ UNCHANGED <<active, values, errors, attached, nChildren, observed,
                   mounted, preOpen, lastHit>>

\* The IntersectionObserver calls back with a batch of entries about observed
\* elements.  A new `active` re-renders InteractiveLearningPro, which hands the
\* Modal a new onClose.
Intersect(entries) ==
    /\ \A i \in 1..Len(entries) : entries[i].target \in observed
    /\ active' = ObserverCallback(active, entries)
    /\ IF active' # active /\ fishboneOpen
       THEN SetDom(Commit(DomNow, nChildren, attached, TRUE, TRUE))
       ELSE SetDom(DomNow)
    /\ lastHit' = LET hits == Hits(entries)
                  IN  IF hits = <<>> THEN lastHit ELSE hits[Len(hits)]
    /\ out' = ObserverOut(entries)
    /\ UNCHANGED <<fishboneOpen, values, errors, attached, nChildren, observed,
                   mounted, preOpen>>

\* Jump marking the section active at once.
Jump_SetsActive(id) ==
    /\ mounted /\ ~fishboneOpen
    /\ active' = id
    /\ out' = Out("jump", 0, 0, jump(id))
    /\ UNCHANGED <<fishboneOpen, values, errors, focus, prev, listeners,
                   attached, nChildren, observed, mounted, preOpen, lastHit>>

\* onJump / onCta / the links calling jump(id)
Jump(id) ==
    /\ mounted /\ ~fishboneOpen
    /\ out' = Out("jump", 0, 0, jump(id))
    /\ UNCHANGED <<active, fishboneOpen, values, errors, focus, prev, listeners,
                   attached, nChildren, observed, mounted, preOpen, lastHit>>

\* onChange={(e)=>set(v=>({...v, [field]: e.target.value}))}
SetField(f, text) ==
    /\ mounted /\ ~fishboneOpen
    /\ values' = [values EXCEPT ![f] = text]
    /\ out' = NoOut("set")
    /\ UNCHANGED <<active, fishboneOpen, errors, focus, prev, listeners,
                   attached, nChildren, observed, mounted, preOpen, lastHit>>

\* const submit = (evt) => { evt.preventDefault(); if (!validate()) return;
\*                           alert(...); console.log("Form:", values); }
submit ==
    /\ mounted /\ ~fishboneOpen
    /\ errors' = validate(values)
    /\ out' = Out("submit", 0, IF DOMAIN errors' = {} THEN 1 ELSE 0, none)
    /\ UNCHANGED <<active, fishboneOpen, values, focus, prev, listeners,
                   attached, nChildren, observed, mounted, preOpen, lastHit>>

\* Unmount without return ()=>obs.disconnect().
Unmount_NoDisconnect ==
    /\ mounted
    /\ mounted' = FALSE
    /\ attached' = {}
    /\ SetDom(LET m == Dom(body, prev, listeners)
              IN  IF fishboneOpen THEN ModalCleanup(m, {}) ELSE m)
    /\ out' = NoOut("unmount")
    /\ UNCHANGED <<active, fishboneOpen, values, errors, nChildren, observed,
                   preOpen, lastHit>>

\* The hosting view is unmounted: its elements leave the document, then the
\* effect cleanups run: the Modal's if its effect ran, and obs.disconnect().
Unmount ==
    /\ mounted
    /\ mounted' = FALSE
    /\ attached' = {}
    /\ SetDom(LET m == Dom(body, prev, listeners)
              IN  IF fishboneOpen THEN ModalCleanup(m, {}) ELSE m)
    /\ observed' = {}
    /\ out' = NoOut("unmount")
    /\ UNCHANGED <<active, fishboneOpen, values, errors, nChildren, preOpen, lastHit>>

Keys == {"Tab", "Escape", "Enter"}

\* The page: the modal, the scroll-spy and the navigation.
Next ==
    \/ \E el \in PageEls \cup {body} : FocusPage(el)
    \/ \E el \in Removable : Detach(el)
    \/ OpenDemo
    \/ \E key \in Keys, shift \in BOOLEAN : KeyDown(key, shift)
    \/ ClickBackdrop
    \/ ClickClose
    \/ \E entries \in Batches : Intersect(entries)
    \/ \E id \in JumpIds : Jump(id)
    \/ Unmount

Spec == Init /\ [][Next]_vars

\* The contact form.  useContactForm's values and errors are read and written
\* by SetField and submit alone, which read and write nothing else, so the form
\* is checked apart from the page.
FormNext ==
    \/ \E f \in Fields : \E text \in Text(f) : SetField(f, text)
    \/ submit

FormSpec == Init /\ [][FormNext]_vars

------------------------------------------------------------------------------
(* Properties *)

\* The variables other than the history variable out.
state == <<active, fishboneOpen, values, errors, focus, prev, listeners,
           attached, nChildren, observed, mounted, preOpen, lastHit>>

\* C1: while the Modal is open, every Tab or Shift+Tab press finds the focus on
\* one of the dialog's focusable elements and leaves it on the next one (Tab)
\* or the previous one (Shift+Tab) of that list, the last wrapping to the first
\* and the first to the last.
C1_TabCyclesInsideModal ==
    [][(isOpen /\ out'.event = "keydown" /\ out'.key = "Tab") =>
          LET list == Focusable(nChildren)
              len  == Len(list)
              i    == IndexOf(list, focus) + 1
          IN  /\ i >= 1
              /\ focus' = IF out'.shift
                          THEN list[IF i = 1 THEN len ELSE i - 1]
                          ELSE list[IF i = len THEN 1 ELSE i + 1]]_vars

\* A Tab press on the last of three focusable elements has wrapped to the first.
C1_Witness ==
    /\ isOpen /\ nChildren = 2
    /\ out.event = "keydown" /\ out.key = "Tab" /\ ~out.shift
    /\ focus = "closeBtn"

\* C2: when the Modal opens, the element focused just before is captured as
\* prev, and focus is on the first focusable element of the dialog.
C2_OpenCapturesFocusAndFocusesFirst ==
    [][(~isOpen /\ isOpen') =>
          /\ prev' = focus
          /\ focus' = Focusable(nChildren)[1]]_vars

\* Opened from the demo button: it is captured, the Close button has focus.
C2_Witness ==
    /\ isOpen /\ out.event = "open"
    /\ prev = "demoBtn" /\ focus = "closeBtn"

\* C3: when the Modal closes, by Escape, the backdrop or the Close button, focus
\* is on the element that had it just before the modal was opened if that
\* element is still in the document, and on no element otherwise.
C3_CloseRestoresFocus ==
    [][(isOpen /\ ~isOpen' /\ mounted') =>
          /\ out'.event \in {"keydown", "backdrop", "close"}
          /\ focus' = IF preOpen \in attached THEN preOpen ELSE body]_vars

\* Closed by a click on the backdrop, focus back on the demo button.
C3_Witness ==
    /\ ~isOpen /\ out.event = "backdrop"
    /\ preOpen = "demoBtn" /\ focus = "demoBtn"

\* C4: an Escape press while the Modal is open calls onClose once and closes
\* it; an Escape press while it is closed calls nothing and changes nothing.
C4_EscapeClosesOnce ==
    [][(out'.event = "keydown" /\ out'.key = "Escape") =>
          IF isOpen
          THEN ~isOpen' /\ out'.onClose = 1
          ELSE out'.onClose = 0 /\ UNCHANGED state]_vars

\* Escape pressed after the modal was opened and closed: nothing was called.
C4_Witness ==
    /\ mounted /\ ~fishboneOpen /\ preOpen # none
    /\ out.event = "keydown" /\ out.key = "Escape" /\ out.onClose = 0

\* C5: after an observer callback that reports one section X as intersecting,
\* active is X.
C5_EnteringSectionBecomesActive ==
    (out.event = "intersect" /\ Len(out.hits) = 1) => active = out.hits[1]

\* The contact section entered the band and is now the active one.
C5_Witness ==
    /\ out.event = "intersect" /\ out.hits = <<"contact">>
    /\ active = "contact"

\* C6: active is always one of the declared section ids, and "home" after the
\* first render.
C6_ActiveIsDeclaredSection ==
    /\ active \in SectionIds
    /\ out.event = "mount" => active = "home"

\* A section other than the initial one is active while the modal is open.
C6_Witness == active = "solutions" /\ isOpen

\* C7: jump(id) changes neither active nor the modal nor anything else: with
\* no element of that id it calls nothing, with one it calls scrollIntoView on
\* it; active changes only in an observer callback.
C7_JumpOnlyScrolls ==
    [][/\ \A id \in JumpIds :
            Jump(id) =>
               /\ UNCHANGED state
               /\ out'.scroll = (IF id \in SectionIds THEN id ELSE none)
               /\ out'.onClose = 0 /\ out'.alert = 0
       /\ out'.event = "jump" => \E id \in JumpIds : Jump(id)
       /\ active' # active => out'.event = "intersect"]_vars

\* jump("contact") asked for the scroll while another section stays active.
C7_Witness ==
    /\ out.event = "jump" /\ out.scroll = "contact"
    /\ active = "activities"

\* The text has no "@" or no ".".
NoAtOrNoDot(s) ==
    \/ \A k \in 1..Len(s) : s[k] # "@"
    \/ \A k \in 1..Len(s) : s[k] # "."

\* C8 as stated: a submit with an empty name and an invalid email leaves
\* exactly the errors name and email, and does not call alert.
C8_Original ==
    (out.event = "submit" /\ values.name = <<>> /\ NoAtOrNoDot(values.email)) =>
        DOMAIN errors = {"name", "email"} /\ out.alert = 0

\* C8 (amended): a submit with an empty name, an invalid email, an organization
\* that is not blank and an empty website leaves exactly the errors name and
\* email, and does not call alert.
C8_TwoErrorsWhenRestValid ==
    (/\ out.event = "submit"
     /\ values.name = <<>> /\ NoAtOrNoDot(values.email)
     /\ trim(values.organization) # <<>> /\ values.website = <<>>) =>
        /\ DOMAIN errors = {"name", "email"}
        /\ errors["name"] = "Please enter your name."
        /\ errors["email"] = "Enter a valid email."
        /\ out.alert = 0

\* Submitted with no name, "not-an-email" and an organization.
C8_Witness ==
    /\ out.event = "submit" /\ values.name = <<>>
    /\ values.email = <<"n", "o", "t", "-", "a", "n", "-", "e", "m", "a", "i", "l">>
    /\ values.organization = <<"U", "W", "S">> /\ values.website = <<>>
    /\ DOMAIN errors = {"name", "email"}

\* C9: a submit with a non-empty website field leaves an error on website and
\* does not call alert, whatever the other fields hold.
C9_HoneypotBlocksSubmit ==
    (out.event = "submit" /\ values.website # <<>>) =>
        /\ "website" \in DOMAIN errors
        /\ out.alert = 0

\* Submitted with every visible field valid and the honeypot filled.
C9_Witness ==
    /\ out.event = "submit" /\ values.website # <<>>
    /\ DOMAIN errors = {"website"}

\* C10: one keydown listener is registered while the Modal is open and none
\* while it is closed, in every state.
C10_OneListenerWhileOpen == listeners = IF isOpen THEN 1 ELSE 0

\* Closed after a render that replaced the listener: none is left.
C10_Witness ==
    /\ mounted /\ ~fishboneOpen /\ out.onClose = 1
    /\ active # "home" /\ listeners = 0

\* C11: unmounting the view leaves no section observed and no keydown listener
\* registered, and no event after it changes active, the modal's state or the
\* focus, or calls onClose.
C11_TeardownReleases ==
    [][/\ (mounted /\ ~mounted') => (observed' = {} /\ listeners' = 0)
       /\ ~mounted =>
             /\ UNCHANGED <<active, fishboneOpen, focus, prev, listeners, observed>>
             /\ out'.onClose = 0]_vars

\* Unmounted with the modal open, then Escape was pressed: the listener that
\* was registered is gone and nothing was called.
C11_Witness ==
    /\ ~mounted /\ fishboneOpen /\ preOpen = "demoBtn"
    /\ out.event = "keydown" /\ out.key = "Escape"
    /\ listeners = 0 /\ observed = {}

\* C12: once any entry has reported a section intersecting, active is the
\* target of the most recent such entry, the last of its batch when a batch
\* reports several, wherever the sections lie on the page.
C12_LastSignaledWins == lastHit # none => active = lastHit

\* One batch reported the last section of the page and then the first: the
\* first, signaled later, is the active one.
C12_Witness ==
    /\ out.event = "intersect" /\ out.hits = <<"contact", "home">>
    /\ active = "home" /\ lastHit = "home"

\* C14: active changes only in an observer callback with an intersecting
\* entry, and to the target of such an entry; a callback whose entries all
\* report leaving leaves it unchanged; and it is "home" as long as no entry
\* has reported a section intersecting.
C14_OnlyIntersectingEntriesChangeActive ==
    /\ lastHit = none => active = "home"
    /\ [][/\ active' # active =>
                 /\ out'.event = "intersect"
                 /\ \E i \in 1..Len(out'.hits) : active' = out'.hits[i]
          /\ (out'.event = "intersect" /\ out'.hits = <<>>) => active' = active
          /\ lastHit' = none => active' = "home"]_vars

\* The about section entered, then a callback reported only a section
\* leaving: about is still the active one.
C14_Witness ==
    /\ out.event = "intersect" /\ out.hits = <<>>
    /\ lastHit = "about" /\ active = "about"

\* The element that has focus once the Modal, open now, is closed: the dialog
\* leaves the document and the pending cleanup calls prev.focus().
RestoredOnClose == Commit(DomNow, nChildren, attached, TRUE, FALSE).focus

============================================================================
